---- MODULE Spec2Model ----
(***************************************************************************)
(* FluxMarket API (src/main.py, src/schemas.py): the request handlers of   *)
(* the classifieds backend over the four collections of the document       *)
(* store (user, listing, message, saved).                                  *)
(*                                                                         *)
(* A handler is a sequence of store operations; handlers of different      *)
(* requests run in different workers and interleave between two store      *)
(* operations.  A handler that reads and then inserts is therefore two     *)
(* steps: the first one validates and reads, the second one builds the     *)
(* schema object and inserts.                                              *)
(*                                                                         *)
(* Strings whose characters are inspected (identifiers, titles, regular    *)
(* expressions, e-mail addresses) are sequences of one-character strings.  *)
(* Strings of which only the length is inspected (description, content)    *)
(* are represented by their length.                                        *)
(***************************************************************************)
EXTENDS Integers, Sequences, FiniteSets, TLC

\* ------------------------------------------------------------------ bounds
MaxUsers == 2
MaxListings == 2
MaxSaved == 3
MaxMessages == 2
MaxClock == 1

\* --------------------------------------------------------------- constants
OidLen == 24
TitleMaxLength == 140
TextMaxLength == 5000
ListLimitMax == 100
ThreadLimitMax == 200

Threads == {"w1", "w2"}

VARIABLES
    user,       \* db.user: documents in natural (insertion) order
    listing,    \* db.listing
    message,    \* db.message
    saved,      \* db.saved
    nextOid,    \* number of identifiers the store has assigned so far
    now,        \* the server clock, at the resolution the store keeps
    pc,         \* per worker: "idle", or the step its handler is about to take
    body,       \* per worker: the request body of the handler in flight
    last        \* the request completed last, with its response and the
                \* number of store operations it performed

vars == <<user, listing, message, saved, nextOid, now, pc, body, last>>

\* ------------------------------------------------------------- characters
\* str.lower() on one character.
LowerChar(c) ==
    CASE c = "A" -> "a" [] c = "B" -> "b" [] c = "C" -> "c"
      [] c = "D" -> "d" [] c = "E" -> "e" [] c = "F" -> "f"
      [] c = "X" -> "x" [] OTHER -> c

Lower(s) == [i \in 1..Len(s) |-> LowerChar(s[i])]

HexDigits == <<"0", "1", "2", "3", "4", "5", "6", "7", "8", "9",
               "a", "b", "c", "d", "e", "f">>

IsHex(c) ==
    c \in {"0", "1", "2", "3", "4", "5", "6", "7", "8", "9",
           "a", "b", "c", "d", "e", "f", "A", "B", "C", "D", "E", "F"}

\* ------------------------------------------------------------ identifiers
\* bson.ObjectId.is_valid on a str: 24 characters, all hexadecimal digits.
ObjectIdIsValid(v) == Len(v) = OidLen /\ \A i \in 1..Len(v) : IsHex(v[i])

\* ObjectId(v): the parsed identifier; hexadecimal digits of either case
\* denote the same bytes.
ObjectId(v) == [oid |-> Lower(v)]

\* str(ObjectId): 24 lower-case hexadecimal digits.
StrOfObjectId(o) == o.oid

\* The n-th identifier the store assigns.
NewObjectId(n) ==
    [oid |-> [i \in 1..OidLen |->
                IF i = 1 THEN "a"
                ELSE IF i = OidLen THEN HexDigits[n + 1]
                ELSE "0"]]

Oid(n) == StrOfObjectId(NewObjectId(n))

\* ------------------------------------------------------------------ store
Range(s) == {s[i] : i \in 1..Len(s)}

\* find(filter): the documents of coll among `matching`, the documents the
\* filter matches, in natural order.
Find(coll, matching) == SelectSeq(coll, LAMBDA d : d \in matching)

\* find_one(filter): <<>> when absent, else the first matching document
\* in a one-element sequence.
FindOne(coll, matching) ==
    LET r == Find(coll, matching) IN IF r = <<>> THEN <<>> ELSE <<r[1]>>

\* cursor.limit(n)
Limit(docs, n) == SubSeq(docs, 1, IF Len(docs) < n THEN Len(docs) ELSE n)

\* create_document(collection_name, data): the collection with the new
\* document appended.  The store assigns _id; a message also carries the
\* server-assigned creation timestamp.
create_document(collection_name, coll, data, n, ts) ==
    Append(coll,
           IF collection_name = "message"
           THEN ("_id" :> NewObjectId(n)) @@ ("created_at" :> ts) @@ data
           ELSE ("_id" :> NewObjectId(n)) @@ data)

\* The identifier create_document returns: str(result.inserted_id).
inserted_id(n) == StrOfObjectId(NewObjectId(n))

\* d["id"] = str(d.pop("_id"))
Transform(d) ==
    [f \in (DOMAIN d \ {"_id"}) \cup {"id"} |->
        IF f = "id" THEN StrOfObjectId(d["_id"]) ELSE d[f]]

TransformAll(docs) == [i \in 1..Len(docs) |-> Transform(docs[i])]

\* ---------------------------------------------------------------- schemas
\* pydantic EmailStr: one "@", a non-empty local part, a domain with an
\* inner "."; the validated value has the domain in lower case.
AtSigns(e) == {i \in 1..Len(e) : e[i] = "@"}

EmailStrValid(e) ==
    /\ Cardinality(AtSigns(e)) = 1
    /\ LET at == CHOOSE i \in AtSigns(e) : TRUE IN
         /\ at > 1
         /\ \E i \in (at + 2)..(Len(e) - 1) : e[i] = "."

EmailStr(e) ==
    LET at == CHOOSE i \in AtSigns(e) : TRUE IN
    [i \in 1..Len(e) |-> IF i > at THEN LowerChar(e[i]) ELSE e[i]]

\* HttpUrl: an http or https scheme and a host.
HttpUrlValid(u) == u.scheme \in {"http", "https"} /\ u.host # ""

\* class User(BaseModel)
UserSchemaValid(d) == EmailStrValid(d.email)

UserSchema(d) == [d EXCEPT !.email = EmailStr(d.email)]

\* class Listing(BaseModel)
ListingSchemaValid(d) ==
    /\ Len(d.title) <= TitleMaxLength
    /\ d.description <= TextMaxLength
    /\ d.price >= 0
    /\ d.listing_type \in {"sale", "service", "rent"}
    /\ \A i \in 1..Len(d.images) : HttpUrlValid(d.images[i])
    /\ d.status \in {"active", "sold", "paused"}

\* class Message(BaseModel)
MessageSchemaValid(d) == d.content <= TextMaxLength

\* def sha256(text): modelled as an injective tagging of the text.
sha256(text) == <<"sha256", text>>

\* -------------------------------------------------------------- responses
NoRequest ==
    [op |-> "none", body |-> <<>>, status |-> 0, out |-> <<>>, touched |-> 0]

\* A completed request: its response status and body, and how many store
\* operations the handler performed.
Completed(op, b, status, out, touched) ==
    [op |-> op, body |-> b, status |-> status, out |-> out, touched |-> touched]

\* raise HTTPException(status_code, detail)
HTTPException(detail) == [detail |-> detail]

\* An exception no handler catches: the framework answers 500.
InternalServerError == [detail |-> "Internal Server Error"]

NoBody == <<>>

InFlight(step) == {t \in Threads : pc[t] = step}

Store == <<user, listing, message, saved, nextOid, now>>

\* The handler of worker t returns or raises: the worker is idle again.
Finish(t, r) ==
    /\ last' = r
    /\ pc' = [pc EXCEPT ![t] = "idle"]
    /\ body' = [body EXCEPT ![t] = NoBody]

\* The handler of worker t goes on to its insert step.
Continue(t, step, b) ==
    /\ pc' = [pc EXCEPT ![t] = step]
    /\ body' = [body EXCEPT ![t] = b]
    /\ UNCHANGED last

\* ------------------------------------------------------------------- auth
\* line 51: {"email": body.email}
register_filter(b, d) == d.email = b.email

\* register, lines 49-53: look the e-mail up.
register_find(t, b) ==
    /\ pc[t] = "idle"
    /\ LET existing == FindOne(user, {d \in Range(user) : register_filter(b, d)}) IN
       IF existing # <<>>
       THEN Finish(t, Completed("register", b, 400,
                                HTTPException("Email already registered"), 1))
       ELSE /\ Len(user) + Cardinality(InFlight("register_insert")) < MaxUsers
            /\ Continue(t, "register_insert", b)
    /\ UNCHANGED Store

\* register, lines 55-64: build the User and insert it.
register_insert(t) ==
    /\ pc[t] = "register_insert"
    /\ LET b == body[t]
           d == [name |-> b.name, email |-> b.email,
                 password_hash |-> sha256(b.password), is_active |-> TRUE]
       IN
       IF ~UserSchemaValid(d)
       THEN /\ Finish(t, Completed("register", b, 500, InternalServerError, 1))
            /\ UNCHANGED Store
       ELSE /\ user' = create_document("user", user, UserSchema(d), nextOid + 1, now)
            /\ nextOid' = nextOid + 1
            /\ Finish(t, Completed("register", b, 200,
                        [id |-> inserted_id(nextOid + 1), name |-> b.name,
                         email |-> UserSchema(d).email], 2))
            /\ UNCHANGED <<listing, message, saved, now>>

\* login, lines 67-71.
login(t, b) ==
    /\ pc[t] = "idle"
    /\ LET found == FindOne(user, {d \in Range(user) : d.email = b.email}) IN
       IF found = <<>> \/ found[1].password_hash # sha256(b.password)
       THEN Finish(t, Completed("login", b, 401,
                                HTTPException("Invalid credentials"), 1))
       ELSE Finish(t, Completed("login", b, 200,
                        [id |-> StrOfObjectId(found[1]["_id"]),
                         name |-> found[1].name, email |-> found[1].email], 1))
    /\ UNCHANGED Store

\* ------------------------------------------------------------------ saved
\* line 131: both identifiers are well formed.
save_listing_ids_valid(b) ==
    ObjectIdIsValid(b.user_id) /\ ObjectIdIsValid(b.listing_id)

\* A faulty lookup filter: the two fields compared with each other's
\* identifier, so that a stored pair is not found again.
save_listing_filter_exchanged(b, d) ==
    d.user_id = b.listing_id /\ d.listing_id = b.user_id

\* line 134: {"user_id": body.user_id, "listing_id": body.listing_id}
save_listing_filter(b, d) ==
    d.user_id = b.user_id /\ d.listing_id = b.listing_id

\* A faulty check: the identifiers are validated but the pair is not looked up.
save_listing_check_without_lookup(coll, b) ==
    IF ~save_listing_ids_valid(b)
    THEN Completed("save_listing", b, 400, HTTPException("Invalid ids"), 0)
    ELSE NoRequest

\* save_listing, lines 131-136: the response when the handler ends here,
\* NoRequest when it goes on to insert.
save_listing_check(coll, b) ==
    IF ~save_listing_ids_valid(b)
    THEN Completed("save_listing", b, 400, HTTPException("Invalid ids"), 0)
    ELSE LET existing == FindOne(coll, {d \in Range(coll) : save_listing_filter(b, d)}) IN
         IF existing # <<>>
         THEN Completed("save_listing", b, 200, [status |-> "already_saved"], 1)
         ELSE NoRequest

\* save_listing, lines 138-140: the collection with the Saved entry
\* inserted, and the response.
save_listing_create(coll, n, b) ==
    [coll |-> create_document("saved", coll,
                              [user_id |-> b.user_id, listing_id |-> b.listing_id],
                              n + 1, 0),
     n |-> n + 1,
     resp |-> Completed("save_listing", b, 200, [id |-> inserted_id(n + 1)], 2)]

\* save_listing, lines 130-140, run with no other request in between.
save_listing(coll, n, b) ==
    LET r == save_listing_check(coll, b) IN
    IF r # NoRequest THEN [coll |-> coll, n |-> n, resp |-> r]
    ELSE save_listing_create(coll, n, b)

\* First step of save_listing: validate both identifiers, look the pair up.
save_listing_find(t, b) ==
    /\ pc[t] = "idle"
    /\ LET r == save_listing_check(saved, b) IN
       IF r # NoRequest
       THEN Finish(t, r)
       ELSE /\ Len(saved) + Cardinality(InFlight("save_listing_insert")) < MaxSaved
            /\ Continue(t, "save_listing_insert", b)
    /\ UNCHANGED Store

\* Second step of save_listing: insert the Saved entry.
save_listing_insert(t) ==
    /\ pc[t] = "save_listing_insert"
    /\ LET r == save_listing_create(saved, nextOid, body[t]) IN
       /\ saved' = r.coll
       /\ nextOid' = r.n
       /\ Finish(t, r.resp)
    /\ UNCHANGED <<user, listing, message, now>>

\* get_saved, lines 143-151.
get_saved(t, b) ==
    /\ pc[t] = "idle"
    /\ IF ~ObjectIdIsValid(b.user_id)
       THEN Finish(t, Completed("get_saved", b, 400,
                                HTTPException("Invalid user id"), 0))
       ELSE LET docs == Find(saved, {d \in Range(saved) : d.user_id = b.user_id}) IN
            Finish(t, Completed("get_saved", b, 200,
                                [items |-> TransformAll(docs)], 1))
    /\ UNCHANGED Store

\* --------------------------------------------------- regular expressions
\* The store's {"$regex": q, "$options": "i"} for patterns over literal
\* characters, "." (any character), a postfix "*" and "(".
\* A quantifier needs an item before it and a "(" needs its ")": the store
\* refuses such a pattern and the query fails.
RegexValid(p) ==
    \A i \in 1..Len(p) :
        /\ p[i] # "("
        /\ p[i] = "*" => (i > 1 /\ p[i - 1] # "*")

AtomMatches(c, x) == c = "." \/ LowerChar(c) = LowerChar(x)

\* Whether p[i..] matches a prefix of s[j..].
RECURSIVE MatchHere(_, _, _, _)
MatchHere(p, i, s, j) ==
    IF i > Len(p) THEN TRUE
    ELSE IF i < Len(p) /\ p[i + 1] = "*"
    THEN \E k \in j..(Len(s) + 1) :
            /\ \A m \in j..(k - 1) : AtomMatches(p[i], s[m])
            /\ MatchHere(p, i + 2, s, k)
    ELSE /\ j <= Len(s)
         /\ AtomMatches(p[i], s[j])
         /\ MatchHere(p, i + 1, s, j + 1)

\* An unanchored, case-insensitive search of p in s.
RegexSearch(p, s) == \E j \in 1..(Len(s) + 1) : MatchHere(p, 1, s, j)

\* --------------------------------------------------------------- listings
\* A faulty filter: the status clause left out.
list_listings_filter_any_status(b, d) ==
    /\ (b.category # "" => d.category = b.category)
    /\ (b.q # <<>> => RegexSearch(b.q, d.title))

\* lines 87-92: the filter; an absent or empty q or category adds no clause.
list_listings_filter(b, d) ==
    /\ d.status = "active"
    /\ (b.category # "" => d.category = b.category)
    /\ (b.q # <<>> => RegexSearch(b.q, d.title))

\* list_listings, lines 86-98.  limit is within 1..100 when the handler runs.
list_listings(t, b) ==
    /\ pc[t] = "idle"
    /\ IF b.q # <<>> /\ ~RegexValid(b.q)
       THEN Finish(t, Completed("list_listings", b, 500, InternalServerError, 1))
       ELSE LET docs == Limit(Find(listing, {d \in Range(listing) : list_listings_filter(b, d)}),
                              b.limit)
            IN Finish(t, Completed("list_listings", b, 200,
                                   [items |-> TransformAll(docs)], 1))
    /\ UNCHANGED Store

\* A faulty normalisation: the supplied listing_type passed on as it is.
listing_type_as_supplied(b) == b.listing_type

\* line 115: listing_type, or "sale" when it is none of the three.
listing_type_of(b) ==
    IF b.listing_type \in {"sale", "service", "rent"} THEN b.listing_type ELSE "sale"

\* lines 109-119: the fields handed to ListingSchema.
create_listing_fields(b) ==
    [user_id |-> b.user_id, title |-> b.title, description |-> b.description,
     price |-> b.price, category |-> b.category,
     listing_type |-> listing_type_of(b), images |-> b.images,
     status |-> "active"]

\* line 105: {"_id": ObjectId(body.user_id)}
create_listing_filter(b, d) == d["_id"] = ObjectId(b.user_id)

\* create_listing, lines 101-107: validate the owner's identifier, look the
\* owner up.
create_listing_find(t, b) ==
    /\ pc[t] = "idle"
    /\ IF ~ObjectIdIsValid(b.user_id)
       THEN Finish(t, Completed("create_listing", b, 400,
                                HTTPException("Invalid user id"), 0))
       ELSE LET owner == FindOne(user, {d \in Range(user) : create_listing_filter(b, d)}) IN
            IF owner = <<>>
            THEN Finish(t, Completed("create_listing", b, 404,
                                     HTTPException("User not found"), 1))
            ELSE /\ Len(listing) + Cardinality(InFlight("create_listing_insert"))
                      < MaxListings
                 /\ Continue(t, "create_listing_insert", b)
    /\ UNCHANGED Store

\* create_listing, lines 109-121: build the Listing and insert it.
create_listing_insert(t) ==
    /\ pc[t] = "create_listing_insert"
    /\ LET b == body[t]
           d == create_listing_fields(b)
       IN
       IF ~ListingSchemaValid(d)
       THEN /\ Finish(t, Completed("create_listing", b, 500,
                                   InternalServerError, 1))
            /\ UNCHANGED Store
       ELSE /\ listing' = create_document("listing", listing, d, nextOid + 1, now)
            /\ nextOid' = nextOid + 1
            /\ Finish(t, Completed("create_listing", b, 200,
                                   [id |-> inserted_id(nextOid + 1)], 2))
            /\ UNCHANGED <<user, message, saved, now>>

\* -------------------------------------------------------------- messaging
\* A faulty guard: the recipient's identifier left unchecked.
send_message_ids_valid_but_recipient(b) ==
    ObjectIdIsValid(b.listing_id) /\ ObjectIdIsValid(b.from_user_id)

\* line 163: the three identifiers are well formed.
send_message_ids_valid(b) ==
    /\ ObjectIdIsValid(b.listing_id)
    /\ ObjectIdIsValid(b.from_user_id)
    /\ ObjectIdIsValid(b.to_user_id)

\* line 166: {"_id": ObjectId(body.listing_id)}
send_message_filter(b, d) == d["_id"] = ObjectId(b.listing_id)

\* A faulty construction: the message stored as already read.
send_message_fields_read(b) ==
    [listing_id |-> b.listing_id, from_user_id |-> b.from_user_id,
     to_user_id |-> b.to_user_id, content |-> b.content, read |-> TRUE]

\* lines 169-175: the fields handed to MessageSchema.
send_message_fields(b) ==
    [listing_id |-> b.listing_id, from_user_id |-> b.from_user_id,
     to_user_id |-> b.to_user_id, content |-> b.content, read |-> FALSE]

\* send_message, lines 162-167: validate the identifiers, look the listing up.
send_message_find(t, b) ==
    /\ pc[t] = "idle"
    /\ IF ~send_message_ids_valid(b)
       THEN Finish(t, Completed("send_message", b, 400,
                                HTTPException("Invalid ids"), 0))
       ELSE IF FindOne(listing, {d \in Range(listing) : send_message_filter(b, d)}) = <<>>
       THEN Finish(t, Completed("send_message", b, 404,
                                HTTPException("Listing not found"), 1))
       ELSE /\ Len(message) + Cardinality(InFlight("send_message_insert"))
                 < MaxMessages
            /\ Continue(t, "send_message_insert", b)
    /\ UNCHANGED Store

\* The clock readings a new document can be stamped with: the clock does
\* not run backwards and may not have advanced since the last reading.
ClockReadings == {ts \in 0..MaxClock : ts >= now}

\* send_message, lines 169-177: build the Message and insert it.
send_message_insert(t) ==
    /\ pc[t] = "send_message_insert"
    /\ LET b == body[t]
           d == send_message_fields(b)
       IN
       IF ~MessageSchemaValid(d)
       THEN /\ Finish(t, Completed("send_message", b, 500,
                                   InternalServerError, 1))
            /\ UNCHANGED Store
       ELSE \E ts \in ClockReadings :
            /\ now' = ts
            /\ message' = create_document("message", message, d, nextOid + 1, ts)
            /\ nextOid' = nextOid + 1
            /\ Finish(t, Completed("send_message", b, 200,
                                   [id |-> inserted_id(nextOid + 1)], 2))
            /\ UNCHANGED <<user, listing, saved>>

\* line 182: the three identifiers are well formed.
get_thread_ids_valid(b) ==
    /\ ObjectIdIsValid(b.listing_id)
    /\ ObjectIdIsValid(b.a)
    /\ ObjectIdIsValid(b.b)

\* lines 184-189: the listing, and the pair of users in either direction.
get_thread_filter(b, d) ==
    /\ d.listing_id = b.listing_id
    /\ \/ (d.from_user_id = b.a /\ d.to_user_id = b.b)
       \/ (d.from_user_id = b.b /\ d.to_user_id = b.a)

Injections(n) == {f \in [1..n -> 1..n] : \A i, j \in 1..n : f[i] = f[j] => i = j}

\* line 190, .sort("created_at", 1): the orders the store can return the
\* documents in.  Only created_at is a sort key, and the store leaves the
\* order of documents with equal keys unspecified.
sort_created_at(docs) ==
    {[i \in 1..Len(docs) |-> docs[f[i]]] :
        f \in {g \in Injections(Len(docs)) :
                 \A i \in 1..(Len(docs) - 1) :
                    docs[g[i]].created_at <= docs[g[i + 1]].created_at}}

\* The sequences get_thread can return for b on the message collection coll.
get_thread_results(coll, b) ==
    {TransformAll(Limit(r, b.limit)) :
        r \in sort_created_at(Find(coll, {d \in Range(coll) : get_thread_filter(b, d)}))}

\* get_thread, lines 180-195.  limit is within 1..200 when the handler runs.
get_thread(t, b) ==
    /\ pc[t] = "idle"
    /\ IF ~get_thread_ids_valid(b)
       THEN Finish(t, Completed("get_thread", b, 400,
                                HTTPException("Invalid ids"), 0))
       ELSE \E out \in get_thread_results(message, b) :
                Finish(t, Completed("get_thread", b, 200, [items |-> out], 1))
    /\ UNCHANGED Store

\* ------------------------------------------------------- request inputs
\* Identifier strings: well formed (also in upper case, and one no document
\* carries) and malformed (a non-hexadecimal character, one character short).
UpperOid(n) == [i \in 1..OidLen |-> IF i = 1 THEN "A" ELSE Oid(n)[i]]

ExternalId == [i \in 1..OidLen |-> IF i = 1 THEN "b" ELSE "0"]

NonHexId == [i \in 1..OidLen |-> IF i = OidLen THEN "g" ELSE "0"]

ShortId == [i \in 1..(OidLen - 1) |-> "0"]

EmailA == <<"a", "@", "x", ".", "c">>

EmailAUpper == <<"a", "@", "X", ".", "c">>

EmailB == <<"b", "@", "x", ".", "c">>

NotAnEmail == <<"a", "x", ".", "c">>

RegisterBodies ==
    {[name |-> "n", email |-> e, password |-> "pw"] :
        e \in {EmailA, EmailAUpper, EmailB, NotAnEmail}}

LoginBodies ==
    {[email |-> e, password |-> p] : e \in {EmailA, EmailAUpper}, p \in {"pw", "no"}}

SaveBodies ==
    {[user_id |-> u, listing_id |-> l] :
        u \in {Oid(1), Oid(2), NonHexId}, l \in {Oid(1), Oid(2), ShortId}}

GetSavedBodies == {[user_id |-> u] : u \in {Oid(1), Oid(2), NonHexId, ShortId}}

ShortTitle == <<"a", "b">>

LongTitle == [i \in 1..(TitleMaxLength + 1) |-> "a"]

ListingBody(u, lt) ==
    [user_id |-> u, title |-> ShortTitle, description |-> 10, price |-> 5,
     category |-> "electronics", listing_type |-> lt, images |-> <<>>]

CreateListingBodies ==
    {ListingBody(u, lt) :
        u \in {Oid(1), UpperOid(1), Oid(3), NonHexId, ShortId},
        lt \in {"rent", "lease"}}
    \cup {[ListingBody(Oid(1), "sale") EXCEPT !.title = LongTitle],
          [ListingBody(Oid(1), "sale") EXCEPT !.description = TextMaxLength + 1],
          [ListingBody(Oid(1), "sale") EXCEPT !.price = -1],
          [ListingBody(Oid(1), "sale") EXCEPT
              !.images = <<[scheme |-> "ftp", host |-> "x"]>>],
          [ListingBody(Oid(1), "service") EXCEPT
              !.images = <<[scheme |-> "https", host |-> "x"]>>]}

Titles == {<<"a", "b">>, <<"B", "a">>, <<"a", ".">>}

Categories == {"electronics", "books"}

ListQuery(q, c, n) == [q |-> q, category |-> c, limit |-> n]

ListListingsBodies ==
    {ListQuery(q, "", ListLimitMax) :
        q \in {<<>>, <<"b">>, <<"A", "B">>, <<".">>, <<"b", "*">>, <<"(">>, <<"*">>}}
    \cup {ListQuery(<<>>, c, n) : c \in {"electronics", "toys"}, n \in {1, ListLimitMax}}
    \cup {ListQuery(<<"A">>, "electronics", 1), ListQuery(<<".">>, "books", 2)}

MessageBody(l, f, u) ==
    [listing_id |-> l, from_user_id |-> f, to_user_id |-> u, content |-> 12]

SendMessageBodies ==
    {MessageBody(Oid(3), Oid(1), Oid(2)), MessageBody(Oid(3), Oid(2), Oid(1)),
     MessageBody(Oid(4), Oid(1), Oid(2)),
     [MessageBody(Oid(3), Oid(1), Oid(2)) EXCEPT !.content = TextMaxLength + 1],
     MessageBody(Oid(1), Oid(1), Oid(2)), MessageBody(UpperOid(3), Oid(1), Oid(2)),
     MessageBody(NonHexId, Oid(1), Oid(2)), MessageBody(Oid(3), ShortId, Oid(2)),
     MessageBody(Oid(3), Oid(1), NonHexId), MessageBody(Oid(1), NonHexId, ShortId)}

ThreadQuery(l, a, b, n) == [listing_id |-> l, a |-> a, b |-> b, limit |-> n]

GetThreadBodies ==
    {ThreadQuery(l, p[1], p[2], n) :
        l \in {Oid(3), Oid(4)},
        p \in {<<Oid(1), Oid(2)>>, <<Oid(2), Oid(1)>>},
        n \in {1, ThreadLimitMax}}
    \cup {ThreadQuery(ShortId, Oid(1), Oid(2), 1),
          ThreadQuery(Oid(3), NonHexId, Oid(2), 1),
          ThreadQuery(Oid(3), Oid(1), NonHexId, ThreadLimitMax),
          ThreadQuery(NonHexId, ShortId, NonHexId, 1)}

\* ----------------------------------------------------------- initial states
Workers ==
    /\ pc = [t \in Threads |-> "idle"]
    /\ body = [t \in Threads |-> NoBody]
    /\ last = NoRequest

\* The store before any request.
Init ==
    /\ user = <<>>
    /\ listing = <<>>
    /\ message = <<>>
    /\ saved = <<>>
    /\ nextOid = 0
    /\ now = 0
    /\ Workers

\* Two registered users, as two register requests leave them.
SeedUsers ==
    <<[_id |-> NewObjectId(1), name |-> "n", email |-> EmailA,
       password_hash |-> sha256("pw"), is_active |-> TRUE],
      [_id |-> NewObjectId(2), name |-> "n", email |-> EmailB,
       password_hash |-> sha256("pw"), is_active |-> TRUE]>>

\* A listing of each seeded user, as two create_listing requests leave them.
SeedListings ==
    <<("_id" :> NewObjectId(3)) @@ create_listing_fields(ListingBody(Oid(1), "sale")),
      ("_id" :> NewObjectId(4)) @@ create_listing_fields(ListingBody(Oid(2), "rent"))>>

\* The sequences of at most n elements of S.
SeqsUpTo(S, n) == UNION {[1..k -> S] : k \in 0..n}

\* The documents fs as the store holds them: _id assigned in insertion
\* order, after the first `base` identifiers.
Stored(fs, base) == [i \in 1..Len(fs) |-> ("_id" :> NewObjectId(base + i)) @@ fs[i]]

\* The store with the seeded users: the start for the listing handlers.
ListingInit ==
    /\ user = SeedUsers
    /\ listing = <<>>
    /\ message = <<>>
    /\ saved = <<>>
    /\ nextOid = 2
    /\ now = 0
    /\ Workers

\* The store with the seeded users and listings: the start for messaging.
MessageInit ==
    /\ user = SeedUsers
    /\ listing = SeedListings
    /\ message = <<>>
    /\ saved = <<>>
    /\ nextOid = 4
    /\ now = 0
    /\ Workers

\* Listings as create_listing stores them, of every title, category and
\* status (a listing leaves "active" outside these handlers).
ListingKinds ==
    {[create_listing_fields(ListingBody(Oid(1), "sale")) EXCEPT
         !.title = ti, !.category = c, !.status = st] :
        ti \in Titles, c \in Categories, st \in {"active", "sold"}}

\* Any listing collection of at most MaxListings documents.
ListQueryInit ==
    /\ user = SeedUsers
    /\ listing \in {Stored(fs, 2) : fs \in SeqsUpTo(ListingKinds, MaxListings)}
    /\ message = <<>>
    /\ saved = <<>>
    /\ nextOid = 2 + Len(listing)
    /\ now = 0
    /\ Workers

\* Messages as send_message stores them.  They arrive at the store in any
\* order of their creation timestamps.
MessageKinds ==
    {("created_at" :> ts) @@ send_message_fields(b) :
        b \in {MessageBody(Oid(3), Oid(1), Oid(2)), MessageBody(Oid(3), Oid(2), Oid(1)),
               MessageBody(Oid(3), Oid(1), ExternalId),
               MessageBody(Oid(4), Oid(1), Oid(2))},
        ts \in 0..MaxClock}

\* Any message collection of at most MaxMessages documents.
ThreadQueryInit ==
    /\ user = SeedUsers
    /\ listing = SeedListings
    /\ message \in {Stored(fs, 4) : fs \in SeqsUpTo(MessageKinds, MaxMessages)}
    /\ saved = <<>>
    /\ nextOid = 4 + Len(message)
    /\ now = MaxClock
    /\ Workers

\* ------------------------------------------------------------ next-state
AuthNext ==
    \E t \in Threads :
        \/ \E b \in RegisterBodies : register_find(t, b)
        \/ register_insert(t)
        \/ \E b \in LoginBodies : login(t, b)

SavedNext ==
    \E t \in Threads :
        \/ \E b \in SaveBodies : save_listing_find(t, b)
        \/ save_listing_insert(t)
        \/ \E b \in GetSavedBodies : get_saved(t, b)

ListingNext ==
    \E t \in Threads :
        \/ \E b \in CreateListingBodies : create_listing_find(t, b)
        \/ create_listing_insert(t)

MessageNext ==
    \E t \in Threads :
        \/ \E b \in SendMessageBodies : send_message_find(t, b)
        \/ send_message_insert(t)
        \/ \E b \in {ThreadQuery(Oid(3), Oid(2), Oid(1), n) : n \in {1, ThreadLimitMax}} :
              get_thread(t, b)

ListQueryNext ==
    \E t \in Threads : \E b \in ListListingsBodies : list_listings(t, b)

ThreadQueryNext ==
    \E t \in Threads : \E b \in GetThreadBodies : get_thread(t, b)

Next ==
    \/ AuthNext
    \/ SavedNext
    \/ ListingNext
    \/ MessageNext
    \/ ListQueryNext

\* The whole service, from the empty store.
Spec == Init /\ [][Next]_vars

\* Registration and login.
AuthSpec == Init /\ [][AuthNext]_vars

\* The saved-listing handlers.
SavedSpec == Init /\ [][SavedNext]_vars

\* Listing creation, the owners being registered.
ListingSpec == ListingInit /\ [][ListingNext]_vars

\* Messaging about the seeded listings.
MessageSpec == MessageInit /\ [][MessageNext]_vars

\* list_listings on any listing collection.
ListQuerySpec == ListQueryInit /\ [][ListQueryNext]_vars

\* get_thread on any message collection.
ThreadQuerySpec == ThreadQueryInit /\ [][ThreadQueryNext]_vars

\* ------------------------------------------------- identifier validation
\* The identifier strings a request carries.
Identifiers(op, b) ==
    CASE op = "create_listing" -> {b.user_id}
      [] op = "save_listing" -> {b.user_id, b.listing_id}
      [] op = "get_saved" -> {b.user_id}
      [] op = "send_message" -> {b.listing_id, b.from_user_id, b.to_user_id}
      [] op = "get_thread" -> {b.listing_id, b.a, b.b}
      [] OTHER -> {}

Malformed(op, b) == \E v \in Identifiers(op, b) : ~ObjectIdIsValid(v)

\* The store with the seeded users and the first seeded listing.
GuardInit ==
    /\ user = SeedUsers
    /\ listing = SubSeq(SeedListings, 1, 1)
    /\ message = <<>>
    /\ saved = <<>>
    /\ nextOid = 3
    /\ now = 0
    /\ Workers

\* Every handler that takes identifiers, on the requests of its inputs that
\* carry a malformed identifier; save_listing and send_message also on
\* requests that carry none, which fill the store.
GuardNext ==
    \E t \in Threads :
        \/ \E b \in {x \in CreateListingBodies : Malformed("create_listing", x)} :
              create_listing_find(t, b)
        \/ \E b \in {x \in SaveBodies : Malformed("save_listing", x)}
                    \cup {[user_id |-> Oid(1), listing_id |-> Oid(3)]} :
              save_listing_find(t, b)
        \/ save_listing_insert(t)
        \/ \E b \in {x \in GetSavedBodies : Malformed("get_saved", x)} :
              get_saved(t, b)
        \/ \E b \in {x \in SendMessageBodies : Malformed("send_message", x)}
                    \cup {MessageBody(Oid(3), Oid(1), Oid(2))} :
              send_message_find(t, b)
        \/ send_message_insert(t)
        \/ \E b \in {x \in GetThreadBodies : Malformed("get_thread", x)} :
              get_thread(t, b)

\* The identifier guards of the five handlers.
GuardSpec == GuardInit /\ [][GuardNext]_vars

\* ================================================================ claims
\* A response was produced in this step.
Responded(op) == last' # last /\ last'.op = op

\* No document already stored is changed or removed in this step.
Kept(coll, coll2) == Len(coll2) >= Len(coll) /\ SubSeq(coll2, 1, Len(coll)) = coll

\* ---------------------------------------------------------------- saved
ValidSaveBodies == {b \in SaveBodies : ObjectIdIsValid(b.user_id)
                                        /\ ObjectIdIsValid(b.listing_id)}

\* The number of Saved entries of coll for the pair of b.
SavedCount(coll, b) ==
    Cardinality({i \in 1..Len(coll) :
                    coll[i].user_id = b.user_id /\ coll[i].listing_id = b.listing_id})

\* The workers past the lookup of a save_listing for the pair of b, about
\* to insert.
SavePending(b) ==
    Cardinality({t \in Threads : pc[t] = "save_listing_insert" /\ body[t] = b})

\* C1, as stated: in every reachable state the saved collection holds at
\* most one Saved entry for each (user_id, listing_id) pair, also when
\* save_listing requests for the same pair run concurrently.
C1_SavedAtMostOnePerPair ==
    \A b \in ValidSaveBodies : SavedCount(saved, b) <= 1

\* C1, amended: requests for one pair that overlap between lookup and insert
\* each insert, and no other request does: the entries for a pair, with the
\* ones that workers past their lookup are about to insert, never outnumber
\* the workers.
C1_SavedAtMostOnePerWorker ==
    \A b \in ValidSaveBodies :
        SavedCount(saved, b) + SavePending(b) <= Cardinality(Threads)

\* C1 witness: two overlapping requests for one pair have both inserted.
C1_Witness ==
    \E b \in ValidSaveBodies :
        /\ SavedCount(saved, b) = 2
        /\ last.op = "save_listing" /\ last.body = b /\ "id" \in DOMAIN last.out

\* C2: for a well-formed pair not yet saved, two save_listing calls run one
\* after the other answer {id} and then {status: already_saved}, both with
\* status 200, and exactly one entry for the pair is stored afterwards.
C2_SaveTwice ==
    \A b \in ValidSaveBodies :
        SavedCount(saved, b) = 0 =>
            LET r1 == save_listing(saved, nextOid, b)
                r2 == save_listing(r1.coll, r1.n, b)
            IN /\ r1.resp.status = 200
               /\ DOMAIN r1.resp.out = {"id"}
               /\ \E i \in 1..Len(r1.coll) :
                     /\ StrOfObjectId(r1.coll[i]["_id"]) = r1.resp.out.id
                     /\ r1.coll[i].user_id = b.user_id
                     /\ r1.coll[i].listing_id = b.listing_id
               /\ r2.resp.status = 200
               /\ r2.resp.out = [status |-> "already_saved"]
               /\ r2.resp.out # r1.resp.out
               /\ r2.coll = r1.coll
               /\ SavedCount(r2.coll, b) = 1
               /\ Kept(saved, r2.coll)

\* C2 witness: a pair was saved and a later save_listing for it, run with no
\* other request in flight, answered already_saved; one entry is stored.
C2_Witness ==
    /\ last.op = "save_listing"
    /\ last.out = [status |-> "already_saved"]
    /\ SavedCount(saved, last.body) = 1
    /\ \A t \in Threads : pc[t] = "idle"
    /\ \E b \in ValidSaveBodies : SavedCount(saved, b) = 0

\* ----------------------------------------------------------------- auth
\* C10, as stated: the user collection never holds two users with the same
\* e-mail, and a register request for a registered e-mail is refused with
\* a client error and leaves the collection as it is.
C10_UniqueEmail ==
    \A i, j \in 1..Len(user) : user[i].email = user[j].email => i = j

\* -------------------------------------------------------------- listings
\* The stored user the identifier string v names, if any.
UserExists(v) == \E i \in 1..Len(user) : StrOfObjectId(user[i]["_id"]) = Lower(v)

\* The body satisfies the constraints of the Listing schema on the fields
\* the handler passes through.
ListingBodyAcceptable(b) ==
    /\ Len(b.title) <= TitleMaxLength
    /\ b.description <= TextMaxLength
    /\ b.price >= 0
    /\ \A i \in 1..Len(b.images) : b.images[i].scheme \in {"http", "https"}

\* The listing create_listing is to store for body b, as the claim has it.
ExpectedListingType(b) ==
    IF b.listing_type \in {"sale", "service", "rent"} THEN b.listing_type ELSE "sale"

\* This step inserted exactly one listing for b, answered with its id.
InsertedListing(b) ==
    /\ last'.status = 200
    /\ Len(listing') = Len(listing) + 1
    /\ Kept(listing, listing')
    /\ LET d == listing'[Len(listing')] IN
         /\ StrOfObjectId(d["_id"]) = last'.out.id
         /\ d.status = "active"
         /\ d.listing_type = ExpectedListingType(b)
         /\ d.user_id = b.user_id /\ d.title = b.title /\ d.price = b.price

EveryListingTypeDeclared ==
    \A i \in 1..Len(listing') : listing'[i].listing_type \in {"sale", "service", "rent"}

ListingExists(v) ==
    \E i \in 1..Len(listing) : StrOfObjectId(listing[i]["_id"]) = Lower(v)

WellFormedMessageIds(b) ==
    /\ ObjectIdIsValid(b.listing_id)
    /\ ObjectIdIsValid(b.from_user_id)
    /\ ObjectIdIsValid(b.to_user_id)

\* This step inserted exactly one message for b, unread and stamped with the
\* server's clock, answered with its id.
InsertedMessage(b) ==
    /\ last'.status = 200
    /\ Len(message') = Len(message) + 1
    /\ LET d == message'[Len(message')] IN
         /\ StrOfObjectId(d["_id"]) = last'.out.id
         /\ d.read = FALSE
         /\ d.created_at = now' /\ now' >= now
         /\ \A i \in 1..Len(message) : d["_id"] # message[i]["_id"]
         /\ d.listing_id = b.listing_id
         /\ d.from_user_id = b.from_user_id /\ d.to_user_id = b.to_user_id

\* C6, as stated: send_message with three well-formed identifiers answers 404
\* and leaves the messages unchanged when no listing has listing_id; when the
\* listing exists it inserts exactly one message, unread, with the server's
\* timestamp; no later step modifies a stored message.
C6_SendMessage ==
    [][/\ Kept(message, message')
       /\ (Responded("send_message") /\ WellFormedMessageIds(last'.body)) =>
             IF ~ListingExists(last'.body.listing_id)
             THEN last'.status = 404 /\ message' = message
             ELSE InsertedMessage(last'.body)]_vars

\* C6, amended: the message is inserted when, besides, its content has at
\* most 5000 characters; otherwise the request fails with an unclassified
\* error (500) and inserts nothing.
C6_SendAcceptableMessage ==
    [][/\ Kept(message, message')
       /\ (Responded("send_message") /\ WellFormedMessageIds(last'.body)) =>
             IF ~ListingExists(last'.body.listing_id)
             THEN last'.status = 404 /\ message' = message
             ELSE IF last'.body.content <= TextMaxLength
             THEN InsertedMessage(last'.body)
             ELSE last'.status = 500 /\ message' = message]_vars

\* C6 witness: a message was refused for a missing listing after another one
\* had been stored, which is still there, unread.
C6_Witness ==
    /\ last.op = "send_message" /\ last.status = 404
    /\ WellFormedMessageIds(last.body)
    /\ Len(message) = MaxMessages
    /\ \A i \in 1..Len(message) : message[i].read = FALSE
    /\ message[1].created_at = message[2].created_at

\* ---------------------------------------------------------- list_listings
\* C7: list_listings returns only active listings, only listings of the
\* supplied category when one is given, at most `limit` of them, each a stored
\* listing with _id replaced by id and every other field as stored.
C7_ListListings ==
    (last.op = "list_listings" /\ last.status = 200) =>
        LET items == last.out.items IN
        /\ Len(items) <= last.body.limit
        /\ \A i, j \in 1..Len(items) : items[i].id = items[j].id => i = j
        /\ \A i \in 1..Len(items) :
              /\ items[i].status = "active"
              /\ last.body.category # "" => items[i].category = last.body.category
              /\ "_id" \notin DOMAIN items[i]
              /\ \E k \in 1..Len(listing) :
                    /\ items[i].id = StrOfObjectId(listing[k]["_id"])
                    /\ DOMAIN items[i] = (DOMAIN listing[k] \ {"_id"}) \cup {"id"}
                    /\ \A f \in DOMAIN listing[k] \ {"_id"} : items[i][f] = listing[k][f]

\* C7 witness: a query by category with limit 1 returned one listing while
\* the store also holds a listing that is not active, one of another category
\* and a second match.
C7_Witness ==
    /\ last.op = "list_listings" /\ last.status = 200
    /\ last.body.category = "electronics" /\ last.body.limit = 1
    /\ Len(last.out.items) = 1
    /\ Len(listing) >= 2
    /\ listing[1].status = "sold" /\ listing[2].category = "electronics"

\* s contains q, letter case ignored.
ContainsIgnoringCase(s, q) ==
    \E j \in 0..(Len(s) - Len(q)) :
        \A i \in 1..Len(q) : LowerChar(s[j + i]) = LowerChar(q[i])

\* C8, as stated: with q present list_listings returns exactly the active
\* listings (of the category, up to the limit) whose title contains q as a
\* case-insensitive substring, whatever characters q is made of.
C8_TitleContainsQuery ==
    (last.op = "list_listings" /\ last.body.q # <<>>) =>
        /\ last.status = 200
        /\ last.out.items =
              TransformAll(Limit(
                  SelectSeq(listing,
                            LAMBDA d : /\ d.status = "active"
                                       /\ last.body.category # ""
                                             => d.category = last.body.category
                                       /\ ContainsIgnoringCase(d.title, last.body.q)),
                  last.body.limit))

\* ------------------------------------------------------------- get_thread
\* C4, as stated: get_thread(L, a, b, limit) returns the same set of messages
\* as get_thread(L, b, a, limit), every one about listing L and between a and
\* b, in ascending order of creation timestamp.
C4_ThreadSymmetric ==
    (last.op = "get_thread" /\ last.status = 200) =>
        LET q == last.body
            items == last.out.items
        IN
        /\ \A r \in get_thread_results(message, [q EXCEPT !.a = q.b, !.b = q.a]) :
              Range(r) = Range(items)
        /\ \A i \in 1..Len(items) :
              /\ items[i].listing_id = q.listing_id
              /\ <<items[i].from_user_id, items[i].to_user_id>>
                    \in {<<q.a, q.b>>, <<q.b, q.a>>}
        /\ \A i, j \in 1..Len(items) :
              i < j => items[i].created_at <= items[j].created_at

HexValue(c) == CHOOSE k \in 1..Len(HexDigits) : HexDigits[k] = LowerChar(c)

\* Identifier x orders before identifier y.
IdLess(x, y) ==
    \E i \in 1..Len(x) :
        /\ \A j \in 1..(i - 1) : x[j] = y[j]
        /\ HexValue(x[i]) < HexValue(y[i])

\* C5, as stated: messages with equal creation timestamps are returned in
\* the order of their identifiers, so that the returned sequence is the only
\* one get_thread can return on this store.
C5_ThreadOrderDetermined ==
    (last.op = "get_thread" /\ last.status = 200) =>
        LET items == last.out.items IN
        /\ \A i, j \in 1..Len(items) :
              i < j => \/ items[i].created_at < items[j].created_at
                       \/ /\ items[i].created_at = items[j].created_at
                          /\ IdLess(items[i].id, items[j].id)
        /\ get_thread_results(message, last.body) = {items}

\* --------------------------------------------------- identifier validation
GuardedOps == {"create_listing", "save_listing", "get_saved", "send_message",
               "get_thread"}

\* The handler a worker at step `step` is running.
HandlerAt(step) ==
    CASE step = "create_listing_insert" -> "create_listing"
      [] step = "save_listing_insert" -> "save_listing"
      [] step = "send_message_insert" -> "send_message"
      [] OTHER -> "none"

\* C3: a request of create_listing, save_listing, get_saved, send_message or
\* get_thread with a malformed identifier in any position is answered 400
\* without a store operation: the store is as before, and no handler goes
\* on past its first store operation with a malformed identifier.
C3_MalformedRejected ==
    [][/\ \A t \in Threads : ~Malformed(HandlerAt(pc'[t]), body'[t])
       /\ (last' # last /\ last'.op \in GuardedOps /\ Malformed(last'.op, last'.body)) =>
             /\ last'.status = 400
             /\ last'.touched = 0
             /\ UNCHANGED Store]_vars

\* C3 witness: a send_message whose third identifier alone is malformed was
\* answered 400 with the store untouched, after documents had been stored.
C3_Witness ==
    /\ last.op = "send_message" /\ last.status = 400 /\ last.touched = 0
    /\ ObjectIdIsValid(last.body.listing_id)
    /\ ObjectIdIsValid(last.body.from_user_id)
    /\ ~ObjectIdIsValid(last.body.to_user_id)
    /\ Len(message) > 0 /\ Len(saved) > 0

====
